---------------------------- MODULE Spec2Model ----------------------------
(***************************************************************************)
(* Model of core/src/gen.rs of healer: the type-directed generator of      *)
(* fuzz programs.  gen() asks choose_seq for a plan (a list of operation   *)
(* indices built by randomized dependency closure over a relation table)   *)
(* and then builds one call per plan entry with gen_call / gen_value.      *)
(*                                                                         *)
(* Every draw from the random source is a nondeterministic choice.         *)
(* Positions are 0-based as in the source; TLA+ sequences are 1-based, so  *)
(* the element at source position p of a vector v is v[p + 1].             *)
(***************************************************************************)
EXTENDS Integers, Sequences, FiniteSets, TLC

VARIABLES
    rs,             \* the relation table handed to choose_seq
    prog_max_len,   \* conf.prog_max_len
    set,            \* choose_seq: the membership bitset, as the set of marked indices
    seq,            \* choose_seq: the plan built so far
    i,              \* push_deps: the position the closure is at
    iters,          \* observation: iterations of choose_seq's outer loop so far
    k,              \* gen: the position of `for &i in seq.iter()` in the plan
    res,            \* State.res: type id -> argument positions recorded for it
    strs,           \* State.strs: string kind -> strings recorded for it
    prog,           \* State.prog.calls
    argi,           \* State.argi
    log,            \* observation: the string and resource syntheses so far
    pc              \* where the program is

seqVars == <<rs, prog_max_len, set, seq, i, iters>>
genVars == <<k, res, strs, prog, argi, log>>
vars == <<rs, prog_max_len, set, seq, i, iters, k, res, strs, prog, argi, log, pc>>

-----------------------------------------------------------------------------
(* Bounds of the model *)

MaxOps == 3         \* relation tables of 1..MaxOps operations
MaxProgLen == 2     \* prog_max_len ranges over 0..MaxProgLen

-----------------------------------------------------------------------------
(* The relation table (crate::analyze) *)

Relation == {"None", "Some", "Unknown"}

\* rs.len(): the number of operations of the table's group
RsLen(t) == Cardinality(DOMAIN t)

\* rs.index_axis(Axis(0), index): the row of one operation
RsRow(t, index) == t[index]

\* The tables of n operations the sequencer is run on: every table when
\* n <= 2; for larger n the tables whose row a is row 0 rotated by a
\* columns (every row pattern occurs, as row 0 of some table).
AllRTables(n) == [0 .. n - 1 -> [0 .. n - 1 -> Relation]]

RotRTables(n) ==
    { [a \in 0 .. n - 1 |-> [b \in 0 .. n - 1 |-> row[(b + n - a) % n]]] :
        row \in [0 .. n - 1 -> Relation] }

RTables(n) == IF n <= 2 THEN AllRTables(n) ELSE RotRTables(n)

-----------------------------------------------------------------------------
(* choose_seq and push_deps *)

\* A faulty variant of CellStep: a None cell is treated like an Unknown one.
CellStep_NoneIncluded(r, marked, coin) ==
    IF ~marked /\ coin THEN [push |-> TRUE, mark |-> TRUE]
    ELSE IF marked /\ coin THEN [push |-> TRUE, mark |-> FALSE]
    ELSE [push |-> FALSE, mark |-> FALSE]

\* One cell of the row scan of push_deps.  r is the cell, marked is set[j],
\* coin tells whether the random draw of the branch taken passes.
\* Result: whether j is pushed to deps and whether set[j] is set.
CellStep(r, marked, coin) ==
    IF r = "Some"
    THEN IF ~marked /\ coin THEN [push |-> TRUE, mark |-> TRUE]
         ELSE IF marked /\ coin THEN [push |-> TRUE, mark |-> FALSE]
         ELSE [push |-> FALSE, mark |-> FALSE]
    ELSE IF r = "Unknown"
    THEN IF ~marked /\ coin THEN [push |-> TRUE, mark |-> TRUE]
         ELSE IF marked /\ coin THEN [push |-> TRUE, mark |-> FALSE]
         ELSE [push |-> FALSE, mark |-> FALSE]
    ELSE [push |-> FALSE, mark |-> FALSE]

\* The for loop of push_deps over the columns j, j+1, ... of one row.
RECURSIVE ScanRow(_, _, _, _, _)
ScanRow(row, j, st, dp, coins) ==
    IF j >= Cardinality(DOMAIN row)
    THEN [set |-> st, deps |-> dp]
    ELSE LET c == CellStep(row[j], j \in st, coins[j])
         IN  ScanRow(row, j + 1,
                     IF c.mark THEN st \cup {j} ELSE st,
                     IF c.push THEN Append(dp, j) ELSE dp,
                     coins)

\* A faulty variant of PushDepsBase: the length cap is forgotten.
PushDepsBase_NoCap(pos, len, max) == pos >= len

\* The base case of push_deps
PushDepsBase(pos, len, max) == pos >= len \/ len >= max

\* A faulty variant of LoopAgain: the loop goes on one entry too long.
LoopAgain_Late(len, max, coin) == len <= max + 1 /\ coin

\* The loop condition at the end of choose_seq's loop body
LoopAgain(len, max, coin) == len <= max /\ coin

\* A faulty variant of RootRange: the upper end is included.
RootRange_Incl(t) == 0 .. RsLen(t)

\* `rng.gen_range(0, rs.len())`: the indices a root is drawn from
RootRange(t) == 0 .. RsLen(t) - 1

\* choose_seq, loop head: pick a root, mark it, append it, call push_deps
PickRoot ==
    /\ pc = "root"
    /\ \E index \in RootRange(rs) :
          /\ set' = set \cup {index}
          /\ seq' = Append(seq, index)
          /\ i' = Len(seq') - 1
    /\ iters' = iters + 1
    /\ pc' = "deps"
    /\ UNCHANGED <<rs, prog_max_len, genVars>>

\* push_deps past its base case: scan the row of seq[i], extend seq, recurse at i + 1
PushDepsStep ==
    /\ pc = "deps"
    /\ ~PushDepsBase(i, Len(seq), prog_max_len)
    /\ \E coins \in [0 .. RsLen(rs) - 1 -> BOOLEAN] :
          LET r == ScanRow(RsRow(rs, seq[i + 1]), 0, set, <<>>, coins)
          IN  /\ set' = r.set
              /\ seq' = seq \o r.deps
    /\ i' = i + 1
    /\ UNCHANGED <<rs, prog_max_len, iters, pc, genVars>>

\* push_deps at its base case: the whole recursion returns to choose_seq
PushDepsReturn ==
    /\ pc = "deps"
    /\ PushDepsBase(i, Len(seq), prog_max_len)
    /\ pc' = "loop"
    /\ UNCHANGED <<seqVars, genVars>>

\* the end of choose_seq's loop body: continue or break
LoopEnd ==
    /\ pc = "loop"
    /\ \E coin \in BOOLEAN :
          pc' = IF LoopAgain(Len(seq), prog_max_len, coin) THEN "root" ELSE "planned"
    /\ UNCHANGED <<seqVars, genVars>>

-----------------------------------------------------------------------------
(* Config (the string bounds; prog_max_len is the variable above) *)

str_min_len == 1
str_max_len == 3
path_max_depth == 2

-----------------------------------------------------------------------------
(* The target the generator is run on: a type catalog and one group of      *)
(* three operations                                                         *)
(*     open(path) -> fda                                                    *)
(*     xfer(pair {*out fd, fd}, fda)                                        *)
(*     ctl(msg) -> i32                                                      *)
(* where fd is a resource over i32 and fda a resource-classified alias of   *)
(* fd.                                                                      *)

None == [k |-> "None"]
Some(x) == [k |-> "Some", v |-> x]

\* the characters rand's Standard and Alphanumeric distributions draw from
StdChars == {"%"}
AlnumChars == {"a"}

\* the values `rng.gen::<i32>()` draws from
RawI32 == {-1}

Types ==
    [ i32   |-> [k |-> "Num", signed |-> TRUE, limit |-> [m |-> "Vals", vals |-> {0}]],
      u8    |-> [k |-> "Num", signed |-> FALSE, limit |-> [m |-> "Range", start |-> 0, end |-> 2]],
      fd    |-> [k |-> "Res", tid |-> "i32"],
      fda   |-> [k |-> "Alias", tid |-> "fd"],
      int   |-> [k |-> "Alias", tid |-> "i32"],
      outfd |-> [k |-> "Ptr", dir |-> "Out", tid |-> "fd", depth |-> 1],
      infd  |-> [k |-> "Ptr", dir |-> "In", tid |-> "fd", depth |-> 1],
      path  |-> [k |-> "Str", str_type |-> "FileName", vals |-> None],
      text  |-> [k |-> "Str", str_type |-> "Str", vals |-> None],
      ctext |-> [k |-> "Str", str_type |-> "CStr", vals |-> None],
      mode  |-> [k |-> "Str", str_type |-> "Str", vals |-> Some(<< <<"r">>, <<"r", "w">> >>)],
      pair  |-> [k |-> "Struct", fields |-> <<"outfd", "fd">>],
      msg   |-> [k |-> "Union",
                 fields |-> <<"text", "ctext", "mode", "flags", "buf", "len", "infd", "int">>],
      flags |-> [k |-> "Flag", flags |-> <<1, 3>>],
      buf   |-> [k |-> "Slice", tid |-> "u8", l |-> 0, h |-> 2],
      len   |-> [k |-> "Len"] ]

ResTypes == {"fd", "fda"}

Fns ==
    << [id |-> "open", params |-> <<"path">>, r_tid |-> Some("fda")],
       [id |-> "xfer", params |-> <<"pair", "fda">>, r_tid |-> None],
       [id |-> "ctl", params |-> <<"msg">>, r_tid |-> Some("i32")] >>

\* Target::type_of
TypeOf(tid) == Types[tid]

\* Target::is_res
IsRes(tid) == tid \in ResTypes

\* Value::default_val: a default value of the type, built without the State
DefaultVal(tid) == [k |-> "Default", tid |-> tid]

-----------------------------------------------------------------------------
(* Values (crate::value) *)

NumV(signed, n) == [k |-> "Num", signed |-> signed, n |-> n]
StrV(str) == [k |-> "Str", s |-> str]
GroupV(vals) == [k |-> "Group", vals |-> vals]
OptV(choice, val) == [k |-> "Opt", choice |-> choice, val |-> val]
RefV(pos) == [k |-> "Ref", pos |-> pos]
NoneV == [k |-> "None"]

\* A result of a synthesis: the value, and the State after it
Out(val, s) == [val |-> val, s |-> s]

\* the words of one length over an alphabet: `sample_iter(..).take(len).collect()`
Words(chars, n) == [1 .. n -> chars]

-----------------------------------------------------------------------------
(* State *)

\* State::new
NewRes == [t \in {} |-> <<>>]
NewStrs == [FileName |-> <<>>]

\* A faulty variant of RecordRes: the call position is prog.len(), not prog.len() - 1.
RecordRes_NextCall(s, tid) ==
    LET old == IF tid \in DOMAIN s.res THEN s.res[tid] ELSE <<>>
    IN  [s EXCEPT !.res = [t \in DOMAIN s.res \cup {tid} |->
                             IF t = tid THEN Append(old, <<s.cid + 1, s.argi>>)
                                        ELSE s.res[t]]]

\* State::record_res, on the fields of State: cid is prog.len() - 1
RecordRes(s, tid) ==
    LET old == IF tid \in DOMAIN s.res THEN s.res[tid] ELSE <<>>
    IN  [s EXCEPT !.res = [t \in DOMAIN s.res \cup {tid} |->
                             IF t = tid THEN Append(old, <<s.cid, s.argi>>)
                                        ELSE s.res[t]]]

\* State::record_str
RecordStr(s, t, val) ==
    LET old == IF t \in DOMAIN s.strs THEN s.strs[t] ELSE <<>>
    IN  [s EXCEPT !.strs = [x \in DOMAIN s.strs \cup {t} |->
                              IF x = t THEN Append(old, val) ELSE s.strs[x]]]

\* observation: one more entry of the log
Logged(s, ev) == [s EXCEPT !.log = Append(s.log, ev)]

-----------------------------------------------------------------------------
(* The value synthesizer.  Each operator gives the set of the results the   *)
(* random source allows: the value returned and the State left behind.      *)

RECURSIVE GenValue(_, _)
RECURSIVE GenSeq(_, _)
RECURSIVE BitAnd(_, _)
RECURSIVE AndLoop(_, _)
RECURSIVE PathLoop(_, _, _)

\* gen_num: NumLimit::Vals, NumLimit::Range, NumLimit::None (bits wide)
GenNum(ty) ==
    LET ns == CASE ty.limit.m = "Vals" -> ty.limit.vals
                [] ty.limit.m = "Range" -> ty.limit.start .. ty.limit.end - 1
                [] OTHER -> IF ty.signed
                            THEN -(2 ^ (ty.limit.bits - 1)) .. 2 ^ (ty.limit.bits - 1) - 1
                            ELSE 0 .. 2 ^ ty.limit.bits - 1
    IN  {NumV(ty.signed, n) : n \in ns}

\* a & b on non-negative integers
BitAnd(a, b) ==
    IF a = 0 \/ b = 0 THEN 0
    ELSE 2 * BitAnd(a \div 2, b \div 2) + (IF a % 2 = 1 /\ b % 2 = 1 THEN 1 ELSE 0)

\* the loop of gen_flag: the values val can hold when the loop breaks
AndLoop(acc, flags) ==
    LET more == acc \cup {BitAnd(v, flags[x]) : v \in acc, x \in DOMAIN flags}
    IN  IF more = acc THEN acc ELSE AndLoop(more, flags)

\* gen_flag
GenFlag(flags) ==
    IF flags = <<>> THEN {}
    ELSE {NumV(TRUE, n) : n \in RawI32}
         \cup {NumV(TRUE, n) : n \in AndLoop({flags[x] : x \in DOMAIN flags}, flags)}

\* gen_slice_len
GenSliceLen(l, h) ==
    IF l = -1 /\ h = -1 THEN 0 .. 7
    ELSE IF h = -1 THEN 0 .. l - 1
    ELSE l .. h - 1

\* PathBuf::push of a relative segment
PathPush(path, sub) ==
    IF path # <<>> /\ path[Len(path)] = "/" THEN path \o sub ELSE path \o <<"/">> \o sub

\* the loop of gen_str that builds a new path: every segment has length n.
\* (path.into_os_string().into_string() cannot fail on alphanumeric
\* segments, so the branch that restarts from "/" is never taken.)
PathLoop(path, depth, n) ==
    UNION { LET p == PathPush(path, sub)
                d == depth + 1
            IN  (IF d < path_max_depth THEN PathLoop(p, d, n) ELSE {}) \cup {p}
            : sub \in Words(AlnumChars, n) }

\* A faulty variant of StrLens: the upper end is included.
StrLens_Incl(lo, hi) == lo .. hi

\* `rng.gen_range(s.conf.str_min_len, s.conf.str_max_len)`
StrLens(lo, hi) == lo .. hi - 1

\* gen_str
GenStr(str_type, vals, s) ==
    IF vals.k = "Some"
    THEN { Out(StrV(vals.v[x]),
               Logged(s, [e |-> "str", kind |-> str_type, fixed |-> TRUE,
                          fresh |-> FALSE, val |-> vals.v[x]]))
           : x \in DOMAIN vals.v }
    ELSE UNION {
           LET ev(w, fresh) == [e |-> "str", kind |-> str_type, fixed |-> FALSE,
                                fresh |-> fresh, val |-> w]
           IN  CASE str_type = "Str" ->
                      {Out(StrV(w), Logged(s, ev(w, TRUE))) : w \in Words(StdChars, n)}
                 [] str_type = "CStr" ->
                      {Out(StrV(w), Logged(s, ev(w, TRUE))) : w \in Words(AlnumChars, n)}
                 [] str_type = "FileName" ->
                      (IF Len(s.strs["FileName"]) # 0
                       THEN { Out(StrV(s.strs["FileName"][x]),
                                  Logged(s, ev(s.strs["FileName"][x], FALSE)))
                              : x \in DOMAIN s.strs["FileName"] }
                       ELSE {})
                      \cup {Out(StrV(w), Logged(s, ev(w, TRUE))) : w \in PathLoop(<<".">>, 0, n)}
           : n \in StrLens(str_min_len, str_max_len) }

\* gen_ptr
GenPtr(dir, tid, s) ==
    IF dir # "In"
    THEN {Out(DefaultVal(tid), IF IsRes(tid) THEN RecordRes(s, tid) ELSE s)}
    ELSE GenValue(tid, s)

\* observation of one Alias/Resource synthesis of a resource-classified type
ResEvent(tid, s, val) ==
    [e |-> "res", tid |-> tid, had |-> tid \in DOMAIN s.res,
     entries |-> IF tid \in DOMAIN s.res THEN s.res[tid] ELSE <<>>, val |-> val]

\* gen_alias
GenAlias(tid, under_id, s) ==
    IF IsRes(tid)
    THEN IF tid \in DOMAIN s.res
         THEN { Out(RefV(s.res[tid][x]), Logged(s, ResEvent(tid, s, RefV(s.res[tid][x]))))
                : x \in DOMAIN s.res[tid] }
         ELSE {Out(r.val, Logged(r.s, ResEvent(tid, s, r.val))) : r \in GenValue(under_id, s)}
    ELSE GenValue(under_id, s)

\* A faulty variant of GenRes: a recorded resource may be passed over for a
\* fresh value of the underlying type.
GenRes_MayConstruct(res_tid, tid, s) ==
    (IF res_tid \in DOMAIN s.res
     THEN { Out(RefV(s.res[res_tid][x]),
                Logged(s, ResEvent(res_tid, s, RefV(s.res[res_tid][x]))))
            : x \in DOMAIN s.res[res_tid] }
     ELSE {})
    \cup {Out(r.val, Logged(r.s, ResEvent(res_tid, s, r.val))) : r \in GenValue(tid, s)}

\* gen_res
GenRes(res_tid, tid, s) ==
    IF res_tid \in DOMAIN s.res
    THEN { Out(RefV(s.res[res_tid][x]),
               Logged(s, ResEvent(res_tid, s, RefV(s.res[res_tid][x]))))
           : x \in DOMAIN s.res[res_tid] }
    ELSE {Out(r.val, Logged(r.s, ResEvent(res_tid, s, r.val))) : r \in GenValue(tid, s)}

\* the values of a list of types synthesized in order, each on the State the
\* one before left: the loops of gen_struct and gen_slice
GenSeq(tids, s) ==
    IF tids = <<>> THEN {[vals |-> <<>>, s |-> s]}
    ELSE UNION { { [vals |-> <<h.val>> \o t.vals, s |-> t.s] : t \in GenSeq(Tail(tids), h.s) }
                 : h \in GenValue(Head(tids), s) }

\* gen_struct
GenStruct(fields, s) == {Out(GroupV(r.vals), r.s) : r \in GenSeq(fields, s)}

\* gen_union
GenUnion(fields, s) ==
    UNION { {Out(OptV(c, r.val), r.s) : r \in GenValue(fields[c + 1], s)}
            : c \in 0 .. Len(fields) - 1 }

\* gen_slice
GenSlice(tid, l, h, s) ==
    UNION { {Out(GroupV(r.vals), r.s) : r \in GenSeq([x \in 1 .. n |-> tid], s)}
            : n \in GenSliceLen(l, h) }

\* gen_value
GenValue(tid, s) ==
    LET ty == TypeOf(tid)
    IN  CASE ty.k = "Num" -> {Out(v, s) : v \in GenNum(ty)}
          [] ty.k = "Ptr" -> IF ty.depth = 1 THEN GenPtr(ty.dir, ty.tid, s) ELSE {}
          [] ty.k = "Slice" -> GenSlice(ty.tid, ty.l, ty.h, s)
          [] ty.k = "Str" -> GenStr(ty.str_type, ty.vals, s)
          [] ty.k = "Struct" -> GenStruct(ty.fields, s)
          [] ty.k = "Union" -> GenUnion(ty.fields, s)
          [] ty.k = "Flag" -> {Out(v, s) : v \in GenFlag(ty.flags)}
          [] ty.k = "Alias" -> GenAlias(tid, ty.tid, s)
          [] ty.k = "Res" -> GenRes(tid, ty.tid, s)
          [] ty.k = "Len" -> {Out(NumV(FALSE, 0), s)}

-----------------------------------------------------------------------------
(* gen and gen_call *)

\* Call::new
NewCall(fid) == [fid |-> fid, args |-> <<>>, ret |-> None]

\* A faulty variant of CurFn: the loop counter is taken for the plan entry.
CurFn_ByCounter == Fns[(k % Len(Fns)) + 1]

\* the operation of the plan entry gen is at: g.fns[i]
CurFn == Fns[seq[k + 1] + 1]

\* the call gen_call is building: s.prog.calls[call_index]
CurCall == prog[Len(prog)]

\* FnInfo::has_params
HasParams(f) == f.params # <<>>

\* the fields of State the synthesizer reads and writes
StateOf(a) == [res |-> res, strs |-> strs, cid |-> Len(prog) - 1, argi |-> a, log |-> log]

\* gen: `State::new(Prog::new(*gid), conf)` once choose_seq has returned
NewState ==
    /\ pc = "planned"
    /\ res' = NewRes
    /\ strs' = NewStrs
    /\ prog' = <<>>
    /\ argi' = 0
    /\ k' = 0
    /\ pc' = "call"
    /\ UNCHANGED <<seqVars, log>>

\* gen_call, lines 82-84: reset argi, add the empty call
AddCall ==
    /\ pc = "call"
    /\ k < Len(seq)
    /\ argi' = 0
    /\ prog' = Append(prog, NewCall(CurFn.id))
    /\ pc' = "params"
    /\ UNCHANGED <<seqVars, k, res, strs, log>>

\* gen_call, one iteration of the loop over the parameters: the enumerate
\* index is the number of arguments pushed so far
GenArg ==
    /\ pc = "params"
    /\ HasParams(CurFn)
    /\ Len(CurCall.args) < Len(CurFn.params)
    /\ LET a == Len(CurCall.args)
           tid == CurFn.params[a + 1]
       IN  \E r \in GenValue(tid, StateOf(a)) :
              /\ argi' = a
              /\ res' = r.s.res
              /\ strs' = r.s.strs
              /\ log' = r.s.log
              /\ prog' = [prog EXCEPT ![Len(prog)].args = Append(@, [val |-> r.val, tid |-> tid])]
    /\ UNCHANGED <<seqVars, k, pc>>

\* gen_call, lines 93-102: the return value, and back to gen's loop
GenRet ==
    /\ pc = "params"
    /\ ~(HasParams(CurFn) /\ Len(CurCall.args) < Len(CurFn.params))
    /\ IF CurFn.r_tid.k = "Some"
       THEN LET tid == CurFn.r_tid.v
                a == Len(CurCall.args)
            IN  /\ argi' = a
                /\ IF IsRes(tid)
                   THEN /\ res' = RecordRes(StateOf(a), tid).res
                        /\ prog' = [prog EXCEPT ![Len(prog)].ret = Some([tid |-> tid, val |-> NoneV])]
                   ELSE UNCHANGED <<res, prog>>
       ELSE UNCHANGED <<argi, res, prog>>
    /\ k' = k + 1
    /\ pc' = "call"
    /\ UNCHANGED <<seqVars, strs, log>>

\* gen: the plan is exhausted, s.prog is returned
Return ==
    /\ pc = "call"
    /\ k >= Len(seq)
    /\ pc' = "done"
    /\ UNCHANGED <<seqVars, genVars>>

-----------------------------------------------------------------------------
(* The sequencer alone, over every relation table of up to MaxOps operations *)

InitGenVars ==
    /\ k = 0
    /\ res = NewRes
    /\ strs = NewStrs
    /\ prog = <<>>
    /\ argi = 0
    /\ log = <<>>

InitSeq ==
    /\ \E n \in 1 .. MaxOps : rs \in RTables(n)
    /\ prog_max_len \in 0 .. MaxProgLen
    /\ set = {}
    /\ seq = <<>>
    /\ i = 0
    /\ iters = 0
    /\ pc = "root"
    /\ InitGenVars

NextSeq == PickRoot \/ PushDepsStep \/ PushDepsReturn \/ LoopEnd

SpecSeq == InitSeq /\ [][NextSeq]_vars

SpecSeqFair == SpecSeq /\ WF_vars(NextSeq)

-----------------------------------------------------------------------------
(* gen on the target above.  The relation table of its group: xfer is      *)
(* related to open (Some), ctl to xfer (Unknown), every other cell is None. *)

GroupTable ==
    [a \in 0 .. Len(Fns) - 1 |-> [b \in 0 .. Len(Fns) - 1 |->
        IF a = 1 /\ b = 0 THEN "Some"
        ELSE IF a = 2 /\ b = 1 THEN "Unknown"
        ELSE "None"]]

Init ==
    /\ rs = GroupTable
    /\ prog_max_len = MaxProgLen
    /\ set = {}
    /\ seq = <<>>
    /\ i = 0
    /\ iters = 0
    /\ pc = "root"
    /\ InitGenVars

Next ==
    \/ PickRoot \/ PushDepsStep \/ PushDepsReturn \/ LoopEnd
    \/ NewState \/ AddCall \/ GenArg \/ GenRet \/ Return

Spec == Init /\ [][Next]_vars

-----------------------------------------------------------------------------
(* Properties of the sequencer *)

AllNone(t) == \A a \in DOMAIN t : \A b \in DOMAIN t[a] : t[a][b] = "None"

\* the entries a step appended to the plan
Appended(old, new) == SubSeq(new, Len(old) + 1, Len(new))

\* C2: the plan never exceeds prog_max_len by more than one dependency-closure
\* step: at every moment its length is at most prog_max_len + N, N the number
\* of operations of the relation table.
C2_PlanLenBound == Len(seq) <= prog_max_len + RsLen(rs)

\* a returned plan that overshoots the budget by more than the root: the
\* closure step appended N - 1 entries at length prog_max_len - 1
C2_Witness ==
    /\ pc = "planned"
    /\ RsLen(rs) >= 3
    /\ prog_max_len >= 1
    /\ Len(seq) = prog_max_len + RsLen(rs) - 1

\* C3: the plan choose_seq returns is non-empty and each of its entries is an
\* operation index in [0, N), for every table and every budget; the entries
\* of a plan under construction are in [0, N) as well.
C3_PlanNonEmptyInRange ==
    /\ \A x \in DOMAIN seq : seq[x] \in 0 .. RsLen(rs) - 1
    /\ pc = "planned" => Len(seq) >= 1

\* a plan returned under prog_max_len = 0
C3_Witness == pc = "planned" /\ prog_max_len = 0 /\ Len(seq) = 1 /\ RsLen(rs) >= 2

\* C4: choose_seq terminates whatever the random draws are; a recursive call
\* of push_deps is at position i + 1; the outer loop runs at most
\* prog_max_len + 1 times, each iteration appending at least one entry.
C4_Terminates ==
    /\ <>(pc = "planned")
    /\ [][(pc = "deps" /\ pc' = "deps") => i' = i + 1]_vars
    /\ [][iters' # iters => Len(seq') > Len(seq)]_vars
    /\ [](iters <= prog_max_len + 1)

\* the outer loop has run prog_max_len + 1 times and choose_seq has returned
C4_Witness == pc = "planned" /\ prog_max_len >= 1 /\ iters = prog_max_len + 1

\* C9: a closure step at position i appends only columns whose cell in the
\* row of the operation at position i is Some (Possible) or Unknown, in
\* strictly increasing column order, and the marked set afterwards is the
\* marked set before plus the appended columns; with a table of None cells
\* only, the plan holds the roots alone and at most prog_max_len + 1 of them.
C9_ClosureStep ==
    /\ [][(pc = "deps" /\ ~PushDepsBase(i, Len(seq), prog_max_len)) =>
            LET app == Appended(seq, seq')
                row == RsRow(rs, seq[i + 1])
            IN  /\ SubSeq(seq', 1, Len(seq)) = seq
                /\ \A x \in DOMAIN app : row[app[x]] \in {"Some", "Unknown"}
                /\ \A x, y \in DOMAIN app : x < y => app[x] < app[y]
                /\ set' = set \cup {app[x] : x \in DOMAIN app}]_vars
    /\ [](AllNone(rs) => Len(seq) = iters /\ Len(seq) <= prog_max_len + 1)

\* the first closure step has appended two columns of a row that has a None cell
C9_Witness ==
    /\ pc = "deps"
    /\ iters = 1
    /\ i = 1
    /\ Len(seq) = 3
    /\ \E j \in DOMAIN rs : RsRow(rs, seq[1])[j] = "None"

-----------------------------------------------------------------------------
(* Properties of the generated program *)

RECURSIVE RefsOf(_)
RECURSIVE HasOutPtr(_, _)
RECURSIVE RefsRecorded(_, _)
RECURSIVE ValueFits(_, _)

\* the argument positions the References of a value point to, at any depth
RefsOf(v) ==
    CASE v.k = "Ref" -> {v.pos}
      [] v.k = "Group" -> UNION {RefsOf(v.vals[x]) : x \in DOMAIN v.vals}
      [] v.k = "Opt" -> RefsOf(v.val)
      [] OTHER -> {}

\* the type holds an out or in-out pointer whose pointee is T
HasOutPtr(tid, T) ==
    LET ty == TypeOf(tid)
    IN  CASE ty.k = "Ptr" -> IF ty.dir # "In" THEN ty.tid = T ELSE HasOutPtr(ty.tid, T)
          [] ty.k \in {"Slice", "Alias", "Res"} -> HasOutPtr(ty.tid, T)
          [] ty.k \in {"Struct", "Union"} -> \E x \in DOMAIN ty.fields : HasOutPtr(ty.fields[x], T)
          [] OTHER -> FALSE

\* every Reference of a value of type tid is a position recorded for the
\* resource type it stands for: tid, or a resource type tid is built over
RefsRecorded(tid, v) ==
    LET ty == TypeOf(tid)
    IN  CASE v.k = "Ref" ->
               IF ty.k \in {"Alias", "Res"}
               THEN \/ /\ IsRes(tid)
                       /\ tid \in DOMAIN res
                       /\ \E x \in DOMAIN res[tid] : res[tid][x] = v.pos
                    \/ RefsRecorded(ty.tid, v)
               ELSE ty.k = "Ptr" /\ RefsRecorded(ty.tid, v)
          [] v.k = "Group" ->
               CASE ty.k = "Struct" ->
                      \A x \in DOMAIN v.vals : RefsRecorded(ty.fields[x], v.vals[x])
                 [] ty.k = "Slice" -> \A x \in DOMAIN v.vals : RefsRecorded(ty.tid, v.vals[x])
                 [] OTHER -> RefsRecorded(ty.tid, v)
          [] v.k = "Opt" ->
               IF ty.k = "Union" THEN RefsRecorded(ty.fields[v.choice + 1], v.val)
               ELSE RefsRecorded(ty.tid, v)
          [] OTHER -> TRUE

\* v has the shape of a value of type tid
ValueFits(tid, v) ==
    LET ty == TypeOf(tid)
    IN  CASE ty.k \in {"Num", "Flag", "Len"} -> v.k = "Num"
          [] ty.k = "Str" -> v.k = "Str"
          [] ty.k \in {"Struct", "Slice"} -> v.k = "Group"
          [] ty.k = "Union" -> v.k = "Opt"
          [] ty.k = "Ptr" -> IF ty.dir # "In" THEN v = DefaultVal(ty.tid) ELSE ValueFits(ty.tid, v)
          [] ty.k \in {"Alias", "Res"} -> v.k = "Ref" \/ ValueFits(ty.tid, v)

\* the operation of the call at position c of the program
FnOfCall(c) == Fns[seq[c + 1] + 1]

\* C1: every Reference of the program, at any depth of any argument, points
\* to a call strictly before the call that holds it.
C1_RefsPointBackward ==
    \A c \in DOMAIN prog : \A a \in DOMAIN prog[c].args :
        \A pos \in RefsOf(prog[c].args[a].val) : pos[1] < c - 1

\* C5 as claimed: with a recorded position for T, a synthesis of T is a
\* Reference to one of them; without one, the result holds no Reference.
C5_RefIffRecorded ==
    \A x \in DOMAIN log :
        log[x].e = "res" =>
            IF log[x].had
            THEN /\ log[x].val.k = "Ref"
                 /\ \E y \in DOMAIN log[x].entries : log[x].entries[y] = log[x].val.pos
            ELSE RefsOf(log[x].val) = {}

\* C5, amended: with a recorded position for T, a synthesis of T is a
\* Reference to one of the positions recorded for T; without one, the result
\* is the result of synthesizing the underlying type: a value of its shape,
\* and a Reference only when the underlying type is itself a resource type
\* with recorded positions (the Reference is then the one that synthesis made).
C5_RefWhenRecorded ==
    \A x \in DOMAIN log :
        log[x].e = "res" =>
            IF log[x].had
            THEN /\ log[x].val.k = "Ref"
                 /\ \E y \in DOMAIN log[x].entries : log[x].entries[y] = log[x].val.pos
            ELSE /\ ValueFits(TypeOf(log[x].tid).tid, log[x].val)
                 /\ log[x].val.k = "Ref" =>
                        /\ x > 1
                        /\ log[x - 1].e = "res"
                        /\ log[x - 1].tid = TypeOf(log[x].tid).tid
                        /\ log[x - 1].had
                        /\ log[x - 1].val = log[x].val

\* an alias without recorded positions fell through to a recorded position
\* of its underlying resource type, and later, with positions of its own
\* recorded, the alias was synthesized again
C5_Witness ==
    /\ \E x \in DOMAIN log : log[x].e = "res" /\ log[x].tid = "fda" /\ log[x].had
    /\ \E x \in DOMAIN log : log[x].e = "res" /\ ~log[x].had /\ log[x].val.k = "Ref"

\* the greatest number of segments of a path: the loop of gen_str pushes one
\* segment before it looks at path_max_depth
MaxSegments == IF path_max_depth > 1 THEN path_max_depth ELSE 1

\* C6 as claimed: every string synthesized for a String type without a fixed
\* value set, whatever its kind, has a length in [str_min_len, str_max_len).
C6_AllLengthsInRange ==
    \A x \in DOMAIN log :
        (log[x].e = "str" /\ ~log[x].fixed) =>
            /\ Len(log[x].val) >= str_min_len
            /\ Len(log[x].val) < str_max_len

\* C6, amended: a generic or restricted text has a length (in characters) in
\* [str_min_len, str_max_len); a path-like string starts with "./" and is
\* longer than its segments: its length is at least str_min_len + 2 and at
\* most 1 + MaxSegments * str_max_len, and with non-empty segments it is
\* 1 + d * (n + 1) for d segments of one length n in [str_min_len, str_max_len).
C6_TextLengthsInRange ==
    \A x \in DOMAIN log :
        (log[x].e = "str" /\ ~log[x].fixed) =>
            LET w == log[x].val
            IN  IF log[x].kind \in {"Str", "CStr"}
                THEN /\ Len(w) >= str_min_len
                     /\ Len(w) < str_max_len
                     /\ log[x].kind = "CStr" => \A y \in DOMAIN w : w[y] \in AlnumChars
                ELSE /\ Len(w) >= str_min_len + 2
                     /\ Len(w) <= 1 + MaxSegments * str_max_len
                     /\ w[1] = "." /\ w[2] = "/"
                     /\ str_min_len >= 1 =>
                           \E n \in str_min_len .. str_max_len - 1 : \E d \in 1 .. MaxSegments :
                               /\ Len(w) = 1 + d * (n + 1)
                               /\ \A y \in 2 .. Len(w) :
                                     IF (y - 2) % (n + 1) = 0 THEN w[y] = "/"
                                     ELSE w[y] \in AlnumChars

\* a path-like string as long as str_max_len or longer, and a restricted text
C6_Witness ==
    /\ \E x \in DOMAIN log :
          log[x].e = "str" /\ log[x].kind = "FileName" /\ Len(log[x].val) >= str_max_len
    /\ \E x \in DOMAIN log :
          log[x].e = "str" /\ log[x].kind = "CStr" /\ Len(log[x].val) = str_max_len - 1

\* C7: every path-like string gen_str newly synthesized so far is in the
\* string pool of path-like strings.
C7_NewPathsPooled ==
    \A x \in DOMAIN log :
        (log[x].e = "str" /\ log[x].kind = "FileName" /\ log[x].fresh) =>
            \E y \in DOMAIN strs["FileName"] : strs["FileName"][y] = log[x].val

\* C8: the returned program has one call per plan entry, in plan order, each
\* with one argument per declared parameter in declared order; while it is
\* built, a call is only ever appended, and only the call under construction
\* changes.
C8_OneCallPerPlanEntry ==
    /\ [](pc = "done" =>
            /\ Len(prog) = Len(seq)
            /\ \A c \in DOMAIN prog :
                  /\ prog[c].fid = Fns[seq[c] + 1].id
                  /\ Len(prog[c].args) = Len(Fns[seq[c] + 1].params)
                  /\ \A a \in DOMAIN prog[c].args :
                        prog[c].args[a].tid = Fns[seq[c] + 1].params[a])
    /\ [][/\ Len(prog') >= Len(prog)
          /\ Len(prog') <= Len(prog) + 1
          /\ \A c \in DOMAIN prog : c < Len(prog') => prog'[c] = prog[c]
          /\ (prog # <<>> /\ Len(prog') = Len(prog)) =>
                /\ prog'[Len(prog)].fid = prog[Len(prog)].fid
                /\ SubSeq(prog'[Len(prog)].args, 1, Len(prog[Len(prog)].args))
                     = prog[Len(prog)].args]_vars

\* a returned program with two calls of one operation whose arguments differ
C8_Witness ==
    /\ pc = "done"
    /\ \E c, d \in DOMAIN prog :
          c < d /\ seq[c] = seq[d] /\ prog[c].args # prog[d].args

\* the position <<c, a>> recorded for T is a producer of T
Producer(T, pos) ==
    LET c == pos[1]
        a == pos[2]
    IN  /\ IsRes(T)
        /\ c >= 0 /\ c < Len(prog)
        /\ LET f == FnOfCall(c)
           IN  \/ /\ a >= 0 /\ a < Len(f.params)
                  /\ HasOutPtr(f.params[a + 1], T)
               \/ /\ a = Len(f.params)
                  /\ prog[c + 1].ret = Some([tid |-> T, val |-> NoneV])

\* C10: the resource index only grows by appending; every list of it is
\* non-empty; every position recorded for T is a producer of T in an existing
\* call: an argument slot holding an out or in-out pointer to the
\* resource-classified T, or the return slot of a call that returns T; and
\* every Reference of the program is a position recorded for its resource type.
C10_ResIndex ==
    /\ [](\A T \in DOMAIN res :
            /\ res[T] # <<>>
            /\ \A x \in DOMAIN res[T] : Producer(T, res[T][x]))
    /\ [](\A c \in DOMAIN prog : \A a \in DOMAIN prog[c].args :
            RefsRecorded(prog[c].args[a].tid, prog[c].args[a].val))
    /\ [][\A T \in DOMAIN res :
            /\ T \in DOMAIN res'
            /\ SubSeq(res'[T], 1, Len(res[T])) = res[T]]_vars

\* the returned program has a position recorded through an out pointer, one
\* recorded for a return value, and a Reference to each of the two
C10_Witness ==
    /\ pc = "done"
    /\ "fd" \in DOMAIN res
    /\ "fda" \in DOMAIN res
    /\ \E x \in DOMAIN res["fd"] : \E y \in DOMAIN res["fda"] :
          \E c, d \in DOMAIN prog : \E a \in DOMAIN prog[c].args : \E b \in DOMAIN prog[d].args :
              /\ res["fd"][x] \in RefsOf(prog[c].args[a].val)
              /\ res["fda"][y] \in RefsOf(prog[d].args[b].val)

=============================================================================
